---- MODULE Spec2Model ----
(***************************************************************************)
(* Model of save_rtsp_videos (src/src/main.rs): one listener thread that   *)
(* reads control lines from stdin, one supervisor thread per RTSP URL      *)
(* (process_stream) that repeatedly runs a recorder (stream_to_file), and  *)
(* main, which spawns the threads and joins them.                          *)
(*                                                                         *)
(* The media collaborator (ffmpeg) and the operating system are the        *)
(* environment: every call into them returns one of the results its        *)
(* signature allows, chosen nondeterministically.                          *)
(***************************************************************************)
EXTENDS Integers, Sequences, FiniteSets, TLC

(***************************************************************************)
(* Bounds of the model.                                                    *)
(***************************************************************************)
\* packets the collaborator delivers in one run of the program, with one
\* stream and with two
MaxPackets == 3
PairPackets == 1
\* sources the collaborator opens in one run of the program
MaxOpens == 2
\* failed opens in a row that the history counts
MaxFails == 2

(***************************************************************************)
(* Constants of the program.                                               *)
(***************************************************************************)
\* thread::sleep(Duration::from_secs(5))
RetrySecs == 5
\* Duration::from_secs(300)
SplitSecs == 300

(***************************************************************************)
(* Inputs.  Text is a sequence of one-character strings.                   *)
(***************************************************************************)
CamA == <<"/", "a">>
CamB == <<"/", "b">>
CamC == <<"_", "a">>

\* the contents of rtsp.txt with at most one address
UrlLists == { <<>>, <<CamA>>, <<CamB>> }
\* the contents of rtsp.txt with two addresses: a duplicate, two distinct,
\* and two that differ only in a path separator
PairLists == { <<CamA, CamA>>, <<CamA, CamB>>, <<CamA, CamC>> }

\* what one read_line call can append to the buffer and return Ok for:
\* a line with its terminator, a last line without one, or nothing at end
\* of input
Lines == { <<"q", "nl">>, <<"q", "x", "nl">>, <<>> }

\* what a failed read_line can leave in the buffer: the valid text read
\* before the I/O error
Partials == { <<>>, <<"q">> }

\* the seconds of the clock at which a step can happen, with one stream and
\* with two
SoloInstants == { 0, 4, 5, 299, 300, 305, 600 }
PairInstants == { 0, 5, 300 }

Lanes == { 0, 1 }
\* streams().best(Video) of the source at url: the index of its video lane
\* (CamA sends video alone, the others send an audio lane first)
Best(url) == IF url = CamA THEN 0 ELSE 1
NoData == <<-1>>
\* packet.data() of a packet: None, or the payload bytes
Payloads == { NoData, <<1, 2>> }
\* the packets a source whose best video lane is v can deliver
Packets(v) == { [lane |-> v, data |-> d] : d \in Payloads }
                  \cup { [lane |-> 1 - v, data |-> <<3>>] }

VARIABLES
    urls,         \* the URL list read at startup
    running,      \* the shared AtomicBool
    input,        \* the listener's line buffer
    inPc,         \* the listener: "loop" or "done"
    mainPc,       \* main: "spawn", "join", "done"
    mainIdx,      \* workers spawned (while spawning) or joined (while joining)
    now,          \* the clock, in seconds
    fs,           \* the video directory: path -> bytes, for the segment
                  \* files that some File has open (a closed segment
                  \* leaves the model)
    pc,           \* per stream: position of the supervisor / recorder
    vidx,         \* per stream: video_stream_index
    output_file,  \* per stream: the File held by output_file (<<>> or <<h>>)
    newfile,      \* per stream: the File returned by create_output_file
                  \* before it is assigned to output_file (<<>> or <<h>>)
    last_split,   \* per stream: Instant of the last split
    wake,         \* per stream: end of the current sleep
    pkt,          \* per stream: the packet being processed (<<>> or <<p>>)
    src,          \* per stream: the collaborator's input context
    npk,          \* packets delivered so far, over all streams
    nopen,        \* sources opened so far, over all streams
    res,          \* per stream: the Result stream_to_file returned
    got,          \* history: selected-lane payloads delivered in this attempt
    wrote,        \* history: the writes of this attempt, in order
    nseg,         \* history: segment files created in this attempt
    tries,        \* history: attempts since the last successful open
    fails,        \* history: failed opens since the last successful open
    lastEnd       \* history, between two attempts: when the previous
                  \* attempt returned (-1 during an attempt and before the
                  \* first)

vars == << urls, running, input, inPc, mainPc, mainIdx, now, fs, pc, vidx,
           output_file, newfile, last_split, wake, pkt, src, npk, nopen, res,
           got, wrote, nseg, tries, fails, lastEnd >>

Streams == 1 .. Len(urls)

PacketBudget == IF Len(urls) < 2 THEN MaxPackets ELSE PairPackets
Instants == IF Len(urls) < 2 THEN SoloInstants ELSE PairInstants


(***************************************************************************)
(* Pure functions.                                                         *)
(***************************************************************************)
Whitespace == { "sp", "nl" }
Quit == <<"q">>

RECURSIVE TrimStart(_)
TrimStart(s) ==
    IF s # <<>> /\ Head(s) \in Whitespace THEN TrimStart(Tail(s)) ELSE s

RECURSIVE TrimEnd(_)
TrimEnd(s) ==
    IF s # <<>> /\ s[Len(s)] \in Whitespace
    THEN TrimEnd(SubSeq(s, 1, Len(s) - 1))
    ELSE s

\* str::trim
Trim(s) == TrimEnd(TrimStart(s))

\* input.trim() == "q"
IsQuit(s) == Trim(s) = Quit

\* url.replace("/", "_")
Replace(url) == [k \in 1 .. Len(url) |-> IF url[k] = "/" THEN "_" ELSE url[k]]

Digit(d) == <<"0", "1", "2", "3", "4", "5", "6", "7", "8", "9">>[d + 1]
TwoDigits(n) == << Digit((n \div 10) % 10), Digit(n % 10) >>

\* chrono::Local::now().format("%Y%m%d_%H%M%S"); the clock stays within one
\* day, whose date is written "D"
Timestamp(t) ==
    <<"D", "_">> \o TwoDigits(t \div 3600) \o TwoDigits((t % 3600) \div 60)
                 \o TwoDigits(t % 60)

\* format!("video/{}_{}.mp4", url.replace("/", "_"), timestamp)
Filename(url, t) ==
    <<"video/">> \o Replace(url) \o <<"_">> \o Timestamp(t) \o <<".mp4">>

\* the bytes of a file after data is written at offset pos (a gap left by a
\* truncation reads as 0)
WriteAt(content, pos, data) ==
    LET end == IF pos + Len(data) > Len(content) THEN pos + Len(data)
                                                 ELSE Len(content)
    IN [k \in 1 .. end |->
          IF k > pos /\ k <= pos + Len(data) THEN data[k - pos]
          ELSE IF k <= Len(content) THEN content[k] ELSE 0]

\* File::create: the file exists and is empty
Created(files, path) ==
    [q \in DOMAIN files \cup {path} |-> IF q = path THEN <<>> ELSE files[q]]

\* stream.index() == video_stream_index
AnyLane(p, v) == TRUE
IsSelected(p, v) == p.lane = v

\* last_split.elapsed() >= Duration::from_secs(300)
SplitDue(t, split) == t - split >= SplitSecs

\* the value line 119 assigns to last_split at time t: Instant::now()
KeepSplit(t, old) == old
NewSplit(t, old) == t

\* thread::sleep(Duration::from_secs(5)) returns no earlier than this
NoSleep(t) == t
SleepUntil(t) == t + RetrySecs

Horizon == CHOOSE t \in Instants : \A u \in Instants : u <= t

Upd(f, i, v) == [f EXCEPT ![i] = v]

\* a history counter stops counting at cap
Counted(n, cap) == IF n > cap THEN cap ELSE n


StreamIds == { 1, 2 }

NoFiles == [q \in {} |-> <<>>]

\* File::create succeeded at time t: the File it returns, positioned at the
\* start of the file (born and seg are history: when it was created, and as
\* which segment of the attempt)
Handle(url, t, n) ==
    [path |-> Filename(url, t), pos |-> 0, born |-> t, seg |-> n]

(***************************************************************************)
(* Initial state: main has initialised, read rtsp.txt, created the flag    *)
(* (line 22) and spawned the listener (line 26).                           *)
(***************************************************************************)
InitWith(lists) ==
    /\ urls \in lists
    /\ running = TRUE
    /\ input = <<>>
    /\ inPc = "loop"
    /\ mainPc = "spawn"
    /\ mainIdx = 0
    /\ now = 0
    /\ fs = NoFiles
    /\ pc = [i \in Streams |-> "unspawned"]
    /\ vidx = [i \in Streams |-> 0]
    /\ output_file = [i \in Streams |-> <<>>]
    /\ newfile = [i \in Streams |-> <<>>]
    /\ last_split = [i \in Streams |-> 0]
    /\ wake = [i \in Streams |-> 0]
    /\ pkt = [i \in Streams |-> <<>>]
    /\ src = [i \in Streams |-> "closed"]
    /\ npk = 0
    /\ nopen = 0
    /\ res = [i \in Streams |-> "none"]
    /\ got = [i \in Streams |-> <<>>]
    /\ wrote = [i \in Streams |-> <<>>]
    /\ nseg = [i \in Streams |-> 0]
    /\ tries = [i \in Streams |-> 0]
    /\ fails = [i \in Streams |-> 0]
    /\ lastEnd = [i \in Streams |-> -1]

Init == InitWith(UrlLists)
PairInit == InitWith(PairLists)

mainVars == << mainPc, mainIdx >>
budget == << npk, nopen >>
listenVars == << input, inPc >>
recVars == << vidx, output_file, newfile, last_split, pkt, src, got, wrote,
              nseg >>
supVars == << wake, res, tries, fails, lastEnd >>

(***************************************************************************)
(* The clock.                                                              *)
(***************************************************************************)
Tick ==
    /\ \E t \in Instants : t > now /\ now' = t
    /\ UNCHANGED << urls, running, listenVars, mainVars, fs, pc, recVars, budget,
                    supVars >>

(***************************************************************************)
(* The listener thread, lines 26-37.                                       *)
(***************************************************************************)
\* one iteration whose read_line returns Ok: lines 29-35, then the while
\* condition of line 28
ListenerRead ==
    /\ inPc = "loop"
    /\ \E line \in Lines :
          /\ input' = line
          /\ running' = IF IsQuit(line) THEN FALSE ELSE running
          /\ inPc' = IF IsQuit(line) THEN "done" ELSE "loop"
    /\ UNCHANGED << urls, mainVars, now, fs, pc, recVars, budget, supVars >>

\* one iteration whose read_line returns Err: lines 29-30, then the while
\* condition of line 28 on what the failed read left in the buffer
ListenerReadErr ==
    /\ inPc = "loop"
    /\ \E part \in Partials :
          /\ input' = part
          /\ inPc' = IF IsQuit(part) THEN "done" ELSE "loop"
    /\ UNCHANGED << urls, running, mainVars, now, fs, pc, recVars, budget,
                    supVars >>

Listener == ListenerRead \/ ListenerReadErr

(***************************************************************************)
(* main, lines 39-61.                                                      *)
(***************************************************************************)
\* thread::spawn of the next worker
MainSpawn ==
    /\ mainPc = "spawn"
    /\ mainIdx < Len(urls)
    /\ mainIdx' = mainIdx + 1
    /\ pc' = Upd(pc, mainIdx + 1, "loop")
    /\ UNCHANGED << urls, running, listenVars, mainPc, now, fs, recVars, budget,
                    supVars >>

\* input_thread.join() returns
MainJoinInput ==
    /\ mainPc = "spawn"
    /\ mainIdx = Len(urls)
    /\ inPc = "done"
    /\ mainPc' = "join"
    /\ mainIdx' = 0
    /\ UNCHANGED << urls, running, listenVars, now, fs, pc, recVars, budget, supVars >>

\* handle.join() of the next worker returns
MainJoin ==
    /\ mainPc = "join"
    /\ mainIdx < Len(urls)
    /\ pc[mainIdx + 1] = "stopped"
    /\ mainIdx' = mainIdx + 1
    /\ UNCHANGED << urls, running, listenVars, mainPc, now, fs, pc, recVars, budget,
                    supVars >>

\* "All streams stopped. Program exiting."
MainExit ==
    /\ mainPc = "join"
    /\ mainIdx = Len(urls)
    /\ mainPc' = "done"
    /\ UNCHANGED << urls, running, listenVars, mainIdx, now, fs, pc, recVars, budget,
                    supVars >>

Main == MainSpawn \/ MainJoinInput \/ MainJoin \/ MainExit


\* the paths of the Files stream j holds
HeldBy(j) ==
    { output_file[j][k].path : k \in DOMAIN output_file[j] }
        \cup { newfile[j][k].path : k \in DOMAIN newfile[j] }

HeldByOthers(i) == UNION { HeldBy(j) : j \in Streams \ {i} }

\* the open files that remain once only the paths in keep are held
Forget(files, keep) == [q \in DOMAIN files \cap keep |-> files[q]]

(***************************************************************************)
(* The recorder returns to the supervisor: stream_to_file's locals are     *)
(* dropped (the File is closed, the input context is freed) and the Result *)
(* reaches the match of line 73.                                           *)
(***************************************************************************)
ReturnLeak(i, r, files) ==
    /\ lastEnd' = Upd(lastEnd, i, now)
    /\ fs' = files
    /\ pc' = Upd(pc, i, "ret")
    /\ res' = Upd(res, i, r)
    /\ vidx' = Upd(vidx, i, 0)
    /\ output_file' = output_file
    /\ newfile' = Upd(newfile, i, <<>>)
    /\ last_split' = Upd(last_split, i, 0)
    /\ pkt' = Upd(pkt, i, <<>>)
    /\ src' = Upd(src, i, "closed")
    /\ got' = Upd(got, i, <<>>)
    /\ wrote' = Upd(wrote, i, <<>>)
    /\ nseg' = Upd(nseg, i, 0)

Return(i, r, files) ==
    /\ lastEnd' = Upd(lastEnd, i, now)
    /\ fs' = Forget(files, HeldByOthers(i))
    /\ pc' = Upd(pc, i, "ret")
    /\ res' = Upd(res, i, r)
    /\ vidx' = Upd(vidx, i, 0)
    /\ output_file' = Upd(output_file, i, <<>>)
    /\ newfile' = Upd(newfile, i, <<>>)
    /\ last_split' = Upd(last_split, i, 0)
    /\ pkt' = Upd(pkt, i, <<>>)
    /\ src' = Upd(src, i, "closed")
    /\ got' = Upd(got, i, <<>>)
    /\ wrote' = Upd(wrote, i, <<>>)
    /\ nseg' = Upd(nseg, i, 0)

\* an attempt that had opened its source returns
ReturnOpened(i, r, files) ==
    /\ Return(i, r, files)
    /\ tries' = Upd(tries, i, 0)
    /\ fails' = Upd(fails, i, 0)

(***************************************************************************)
(* The supervisor, process_stream, lines 70-83.                            *)
(***************************************************************************)
LoopSwap(i) ==
    /\ i \in Streams
    /\ pc[i] = "loop"
    /\ pc' = Upd(pc, i, IF running THEN "open" ELSE "stopped")
    /\ running' = TRUE
    /\ UNCHANGED << urls, listenVars, mainVars, now, fs, recVars, budget,
                    supVars >>

\* line 72: while running.load()
Loop(i) ==
    /\ i \in Streams
    /\ pc[i] = "loop"
    /\ pc' = Upd(pc, i, IF running THEN "open" ELSE "stopped")
    /\ UNCHANGED << urls, running, listenVars, mainVars, now, fs, recVars, budget,
                    supVars >>

RetSleep(i) ==
    /\ i \in Streams
    /\ pc[i] = "ret"
    /\ SleepUntil(now) <= Horizon
    /\ res' = Upd(res, i, "none")
    /\ pc' = Upd(pc, i, "sleep")
    /\ wake' = Upd(wake, i, SleepUntil(now))
    /\ UNCHANGED << urls, running, listenVars, mainVars, now, fs, recVars, budget,
                    tries, fails, lastEnd >>

\* lines 74-80: the match on the Result, the second load of the flag and the
\* start of the sleep
Ret(i) ==
    /\ i \in Streams
    /\ pc[i] = "ret"
    /\ running => SleepUntil(now) <= Horizon
    /\ res' = Upd(res, i, "none")
    /\ IF running
       THEN pc' = Upd(pc, i, "sleep") /\ wake' = Upd(wake, i, SleepUntil(now))
       ELSE pc' = Upd(pc, i, "loop") /\ UNCHANGED wake
    /\ UNCHANGED << urls, running, listenVars, mainVars, now, fs, recVars, budget,
                    tries, fails, lastEnd >>

\* line 79: thread::sleep returns
Wake(i) ==
    /\ i \in Streams
    /\ pc[i] = "sleep"
    /\ now >= wake[i]
    /\ pc' = Upd(pc, i, "loop")
    /\ wake' = Upd(wake, i, 0)
    /\ UNCHANGED << urls, running, listenVars, mainVars, now, fs, recVars,
                    budget, res, tries, fails, lastEnd >>

(***************************************************************************)
(* The recorder, stream_to_file, lines 85-132.                             *)
(***************************************************************************)
OpenFailCreate(i) ==
    /\ i \in Streams
    /\ pc[i] = "open"
    /\ pc' = Upd(pc, i, "create")
    /\ tries' = Upd(tries, i, Counted(tries[i] + 1, MaxFails + 1))
    /\ fails' = Upd(fails, i, Counted(fails[i] + 1, MaxFails))
    /\ UNCHANGED << urls, running, listenVars, mainVars, now, fs, recVars,
                    budget, wake, res, lastEnd >>

\* line 86: ffmpeg::format::input fails
OpenFail(i) ==
    /\ i \in Streams
    /\ pc[i] = "open"
    /\ Return(i, "err", fs)
    /\ tries' = Upd(tries, i, Counted(tries[i] + 1, MaxFails + 1))
    /\ fails' = Upd(fails, i, Counted(fails[i] + 1, MaxFails))
    /\ UNCHANGED << urls, running, listenVars, mainVars, now, budget, wake >>

\* lines 86-90: the source opens but has no video stream
OpenNoVideo(i) ==
    /\ i \in Streams
    /\ pc[i] = "open"
    /\ nopen < MaxOpens
    /\ nopen' = nopen + 1
    /\ ReturnOpened(i, "err", fs)
    /\ UNCHANGED << urls, running, listenVars, mainVars, now, npk, wake >>

\* lines 86-91: the source opens and best(Video) is lane v
OpenOk(i) ==
    /\ i \in Streams
    /\ pc[i] = "open"
    /\ nopen < MaxOpens
    /\ nopen' = nopen + 1
    /\ vidx' = Upd(vidx, i, Best(urls[i]))
    /\ src' = Upd(src, i, "live")
    /\ tries' = Upd(tries, i, Counted(tries[i] + 1, MaxFails + 1))
    /\ lastEnd' = Upd(lastEnd, i, -1)
    /\ pc' = Upd(pc, i, "create")
    /\ UNCHANGED << urls, running, listenVars, mainVars, now, fs,
                    output_file, newfile, last_split, pkt, npk, got, wrote,
                    nseg, wake, res, fails >>

\* lines 93-94: create_output_file fails
CreateFail(i) ==
    /\ i \in Streams
    /\ pc[i] = "create"
    /\ ReturnOpened(i, "err", fs)
    /\ UNCHANGED << urls, running, listenVars, mainVars, now, budget, wake >>

\* lines 93-95: the first segment is created; last_split = Instant::now()
CreateOk(i) ==
    /\ i \in Streams
    /\ pc[i] = "create"
    /\ output_file' = Upd(output_file, i, << Handle(urls[i], now, 1) >>)
    /\ fs' = Created(fs, Filename(urls[i], now))
    /\ last_split' = Upd(last_split, i, now)
    /\ nseg' = Upd(nseg, i, 1)
    /\ pc' = Upd(pc, i, "pull")
    /\ UNCHANGED << urls, running, listenVars, mainVars, now, vidx, newfile,
                    pkt, src, budget, got, wrote, supVars >>

\* line 99: the packet iterator yields a packet
PullPacket(i) ==
    /\ i \in Streams
    /\ pc[i] = "pull"
    /\ src[i] = "live"
    /\ npk < PacketBudget
    /\ \E p \in Packets(vidx[i]) :
          /\ pkt' = Upd(pkt, i, <<p>>)
          /\ got' = IF p.lane = Best(urls[i]) /\ p.data # NoData
                    THEN Upd(got, i, Append(got[i], p.data))
                    ELSE got
    /\ npk' = npk + 1
    /\ pc' = Upd(pc, i, "chk")
    /\ UNCHANGED << urls, running, listenVars, mainVars, now, fs, vidx,
                    output_file, newfile, last_split, src, wrote, nseg,
                    nopen, supVars >>

\* line 99: the packet iterator yields an error, which filter_map(|r| r.ok())
\* drops before asking for the next item; the source may go on failing
PullErr(i) ==
    /\ i \in Streams
    /\ pc[i] = "pull"
    /\ \E s \in { "live", "broken" } :
          /\ src[i] = "broken" => s = "broken"
          /\ src' = Upd(src, i, s)
    /\ UNCHANGED << urls, running, listenVars, mainVars, now, fs, pc, vidx,
                    output_file, newfile, last_split, pkt, budget, got, wrote,
                    nseg, supVars >>

\* line 99: the packet iterator ends
PullEof(i) ==
    /\ i \in Streams
    /\ pc[i] = "pull"
    /\ src[i] = "live"
    /\ pc' = Upd(pc, i, "final")
    /\ UNCHANGED << urls, running, listenVars, mainVars, now, fs, recVars, budget,
                    supVars >>

ChkIgnore(i) ==
    /\ i \in Streams
    /\ pc[i] = "chk"
    /\ pc' = Upd(pc, i, "proc")
    /\ UNCHANGED << urls, running, listenVars, mainVars, now, fs, recVars,
                    budget, supVars >>

\* lines 100-103: the load of the flag at the top of the loop body
Chk(i) ==
    /\ i \in Streams
    /\ pc[i] = "chk"
    /\ IF running
       THEN pc' = Upd(pc, i, "proc") /\ UNCHANGED pkt
       ELSE pc' = Upd(pc, i, "final") /\ pkt' = Upd(pkt, i, <<>>)
    /\ UNCHANGED << urls, running, listenVars, mainVars, now, fs, vidx,
                    output_file, newfile, last_split, src, budget, got, wrote,
                    nseg, supVars >>

\* line 105: a packet of another stream is skipped
ProcOther(i) ==
    /\ i \in Streams
    /\ pc[i] = "proc"
    /\ ~IsSelected(pkt[i][1], vidx[i])
    /\ pkt' = Upd(pkt, i, <<>>)
    /\ pc' = Upd(pc, i, "pull")
    /\ UNCHANGED << urls, running, listenVars, mainVars, now, fs, vidx,
                    output_file, newfile, last_split, src, budget, got, wrote,
                    nseg, supVars >>

\* lines 112-116 after a video packet: when a split is due, File::flush (which
\* does nothing and returns Ok) and on to line 117; otherwise the next packet
AfterPacket(t, split) == IF SplitDue(t, split) THEN "rcreate" ELSE "pull"

\* lines 106, 112: a video packet without data
ProcNoData(i) ==
    /\ i \in Streams
    /\ pc[i] = "proc"
    /\ IsSelected(pkt[i][1], vidx[i])
    /\ pkt[i][1].data = NoData
    /\ pkt' = Upd(pkt, i, <<>>)
    /\ pc' = Upd(pc, i, AfterPacket(now, last_split[i]))
    /\ UNCHANGED << urls, running, listenVars, mainVars, now, fs, vidx,
                    output_file, newfile, last_split, src, budget, got, wrote,
                    nseg, supVars >>

\* lines 106-112: write_all succeeds
ProcWrite(i) ==
    /\ i \in Streams
    /\ pc[i] = "proc"
    /\ IsSelected(pkt[i][1], vidx[i])
    /\ pkt[i][1].data # NoData
    /\ LET h == output_file[i][1]
           data == pkt[i][1].data
       IN /\ fs' = [fs EXCEPT ![h.path] = WriteAt(@, h.pos, data)]
          /\ output_file' =
                Upd(output_file, i, << [h EXCEPT !.pos = @ + Len(data)] >>)
          /\ wrote' = Upd(wrote, i,
                          Append(wrote[i], [seg |-> h.seg, data |-> data]))
    /\ pkt' = Upd(pkt, i, <<>>)
    /\ pc' = Upd(pc, i, AfterPacket(now, last_split[i]))
    /\ UNCHANGED << urls, running, listenVars, mainVars, now, vidx, newfile,
                    last_split, src, budget, got, nseg, supVars >>

\* lines 106-109: write_all fails after writing the first k bytes
ProcWriteFail(i) ==
    /\ i \in Streams
    /\ pc[i] = "proc"
    /\ IsSelected(pkt[i][1], vidx[i])
    /\ pkt[i][1].data # NoData
    /\ \E k \in 0 .. Len(pkt[i][1].data) - 1 :
          LET h == output_file[i][1]
              part == SubSeq(pkt[i][1].data, 1, k)
          IN ReturnOpened(i, "err",
                          [fs EXCEPT ![h.path] = WriteAt(@, h.pos, part)])
    /\ UNCHANGED << urls, running, listenVars, mainVars, now, budget, wake >>

\* line 117: create_output_file fails
RCreateFail(i) ==
    /\ i \in Streams
    /\ pc[i] = "rcreate"
    /\ ReturnOpened(i, "err", fs)
    /\ UNCHANGED << urls, running, listenVars, mainVars, now, budget, wake >>

\* line 117, right-hand side: the next segment is created while output_file
\* still holds the previous File
RCreateOk(i) ==
    /\ i \in Streams
    /\ pc[i] = "rcreate"
    /\ newfile' = Upd(newfile, i, << Handle(urls[i], now, nseg[i] + 1) >>)
    /\ fs' = Created(fs, Filename(urls[i], now))
    /\ nseg' = Upd(nseg, i, nseg[i] + 1)
    /\ pc' = Upd(pc, i, "assign")
    /\ UNCHANGED << urls, running, listenVars, mainVars, now, vidx,
                    output_file, last_split, pkt, src, budget, got, wrote,
                    supVars >>

\* lines 117-119: the assignment drops the previous File;
\* last_split = Instant::now()
Assign(i) ==
    /\ i \in Streams
    /\ pc[i] = "assign"
    /\ output_file' = Upd(output_file, i, newfile[i])
    /\ newfile' = Upd(newfile, i, <<>>)
    /\ fs' = Forget(fs, HeldByOthers(i) \cup { newfile[i][1].path })
    /\ last_split' = Upd(last_split, i, NewSplit(now, last_split[i]))
    /\ pc' = Upd(pc, i, "pull")
    /\ UNCHANGED << urls, running, listenVars, mainVars, now, vidx, pkt,
                    src, budget, got, wrote, nseg, supVars >>

\* lines 126-131: the final flush (File::flush returns Ok) and Ok(())
Final(i) ==
    /\ i \in Streams
    /\ pc[i] = "final"
    /\ ReturnOpened(i, "ok", fs)
    /\ UNCHANGED << urls, running, listenVars, mainVars, now, budget, wake >>

Supervisor(i) == Loop(i) \/ Ret(i) \/ Wake(i)

Recorder(i) ==
    \/ OpenFail(i) \/ OpenNoVideo(i) \/ OpenOk(i)
    \/ CreateFail(i) \/ CreateOk(i)
    \/ PullPacket(i) \/ PullErr(i) \/ PullEof(i)
    \/ Chk(i)
    \/ ProcOther(i) \/ ProcNoData(i) \/ ProcWrite(i) \/ ProcWriteFail(i)
    \/ RCreateFail(i) \/ RCreateOk(i) \/ Assign(i)
    \/ Final(i)

Stream(i) == Supervisor(i) \/ Recorder(i)

Next ==
    \/ Tick
    \/ ListenerRead \/ ListenerReadErr
    \/ MainSpawn \/ MainJoinInput \/ MainJoin \/ MainExit
    \/ \E i \in StreamIds :
          \/ Loop(i) \/ Ret(i) \/ Wake(i)
          \/ OpenFail(i) \/ OpenNoVideo(i) \/ OpenOk(i)
          \/ CreateFail(i) \/ CreateOk(i)
          \/ PullPacket(i) \/ PullErr(i) \/ PullEof(i)
          \/ Chk(i)
          \/ ProcOther(i) \/ ProcNoData(i) \/ ProcWrite(i)
          \/ ProcWriteFail(i)
          \/ RCreateFail(i) \/ RCreateOk(i) \/ Assign(i)
          \/ Final(i)

Spec == Init /\ [][Next]_vars

\* every thread that can take a step eventually takes one, and time passes
Fairness ==
    /\ WF_vars(Tick)
    /\ WF_vars(Main)
    /\ \A i \in StreamIds : WF_vars(Stream(i))

FairSpec == Init /\ [][Next]_vars /\ Fairness

PairSpec == PairInit /\ [][Next]_vars


(***************************************************************************)
(* Properties.                                                             *)
(***************************************************************************)
AllStopped == \A i \in Streams : pc[i] = "stopped"

\* C1 (no lost shutdown): once the flag is set, every supervisor eventually
\* stops and main's join over all workers returns, whatever the collaborator
\* delivers.  Checked under FairSpec: every thread keeps taking steps.
C1_NoLostShutdown == (~running) ~> (AllStopped /\ mainPc = "done")

\* the Files stream i holds open
OpenFiles(i) == Len(output_file[i]) + Len(newfile[i])

\* C2 (at most one open file per stream): in every reachable state every
\* stream holds at most one File open for writing, the rotation of lines
\* 114-119 included.
C2_AtMostOneOpenFile == \A i \in Streams : OpenFiles(i) <= 1

\* a step in which stream i starts a connection attempt (line 86)
Attempts(i) == pc[i] = "open" /\ pc'[i] # "open"

\* C3 (retry persistence): no supervisor leaves its loop while the flag is
\* unset; an attempt that follows another starts at least RetrySecs after the
\* previous one returned; and the open that succeeds after N failed opens in
\* a row is attempt N + 1 (N below the cap of the history counter).
C3_RetryPersistence ==
    /\ [](\A i \in Streams : pc[i] = "stopped" => ~running)
    /\ [](\A i \in Streams :
            pc[i] = "create" /\ fails[i] < MaxFails
                => tries[i] = fails[i] + 1)
    /\ [][\A i \in Streams :
            /\ Attempts(i) /\ lastEnd[i] >= 0
                  => now >= lastEnd[i] + RetrySecs
            /\ pc[i] = "ret" /\ running /\ pc'[i] # "ret"
                  => pc'[i] = "sleep"
            /\ pc[i] = "sleep" /\ pc'[i] # "sleep" => pc'[i] = "loop"
            /\ pc[i] = "loop" /\ running /\ pc'[i] # "loop"
                  => pc'[i] = "open"]_vars

\* two opens failed in a row and the third attempt has opened its source,
\* with the flag still unset
C3_Witness ==
    \E i \in Streams :
        pc[i] = "create" /\ fails[i] = 2 /\ tries[i] = 3 /\ running


\* C4 (exit only after everyone stopped): main starts one supervisor per
\* URL before it waits; once main has passed its wait-for-all every
\* supervisor has stopped and the flag has been set; no supervisor stops
\* while the flag is unset.
C4_ExitAfterAllStopped ==
    /\ mainPc \in { "join", "done" }
          => \A i \in Streams : pc[i] # "unspawned"
    /\ mainPc = "done" => AllStopped /\ ~running
    /\ \A i \in Streams : pc[i] = "stopped" => ~running

\* everything stream i owns: its supervisor's and its recorder's state
Local(i) ==
    << pc[i], vidx[i], output_file[i], newfile[i], last_split[i], pkt[i],
       src[i], wake[i], res[i] >>

\* the bytes of the segment file stream i is writing
Bytes(i) == [k \in DOMAIN output_file[i] |-> fs[output_file[i][k].path]]

\* C5 (failure isolation): a step of stream a leaves the supervisor state,
\* the recorder state, the open file and the written bytes of every other
\* stream b unchanged.
C5_FailureIsolation ==
    [][\A a \in Streams : \A b \in Streams \ {a} :
          Local(a)' # Local(a)
              => Local(b)' = Local(b) /\ Bytes(b)' = Bytes(b)]_vars

\* C6 (exclusive segment ownership): no two streams hold the same segment
\* file open at the same time, duplicate addresses included.
C6_ExclusiveSegments ==
    \A a \in Streams : \A b \in Streams \ {a} : HeldBy(a) \cap HeldBy(b) = {}

\* C7 (monotone shutdown signal): the flag starts unset (running = TRUE);
\* every change of it sets it; and the step that changes it is the
\* listener's, no supervisor, recorder or main step.
C7_MonotoneShutdown ==
    /\ running = TRUE
    /\ [][running' # running
            => /\ running /\ ~running'
               /\ inPc = "loop" /\ inPc' = "done"
               /\ UNCHANGED << pc, mainVars, recVars, supVars >>]_vars

\* the flag is set and the program has run to its end
C7_Witness == ~running /\ mainPc = "done" /\ Len(urls) > 0

\* C8 (shutdown trigger): every iteration of the listener either reads the
\* token q and sets the flag, or leaves the flag unchanged and keeps
\* listening: read errors and end of input included.
C8_ShutdownTrigger ==
    [][inPc = "loop"
          => IF running' # running
             THEN IsQuit(input')
             ELSE inPc' = "loop" /\ (input' # input => ~IsQuit(input'))]_vars

RECURSIVE Concat(_)
Concat(ss) == IF ss = <<>> THEN <<>> ELSE Head(ss) \o Concat(Tail(ss))

\* the payloads the writes of stream i put into segment n, in order
SegData(i, n) ==
    LET RECURSIVE Pick(_)
        Pick(w) == IF w = <<>> THEN <<>>
                   ELSE IF Head(w).seg = n
                        THEN <<Head(w).data>> \o Pick(Tail(w))
                        ELSE Pick(Tail(w))
    IN Pick(wrote[i])

C10_RotationLowerBound ==
    /\ [](\A i \in Streams :
            pc[i] \in { "rcreate", "assign" }
                => now - output_file[i][1].born >= SplitSecs)
    /\ [][\A i \in Streams :
            /\ pc[i] = "assign" /\ pc'[i] # "assign"
                  => pc'[i] = "pull" /\ last_split'[i] = now'
            /\ pc[i] # "rcreate" /\ pc'[i] = "rcreate"
                  => /\ pc[i] = "proc"
                     /\ pkt[i][1].lane = Best(urls[i])]_vars

\* the second rotation of an attempt is closing its second segment
C10_Witness ==
    \E i \in Streams : pc[i] = "assign" /\ output_file[i][1].seg = 2

\* C11 (a stream error ends the attempt): when the packet iterator reports an
\* error to a recorder that is pulling packets, the recorder stops pulling
\* and the attempt returns Err to the supervisor.
C11_StreamErrorEndsAttempt ==
    [][\A i \in Streams :
          pc[i] = "pull" /\ src[i] = "live" /\ src'[i] = "broken"
              => pc'[i] = "ret" /\ res'[i] = "err"]_vars

\* C12 (draining on every exit path): a recorder that holds a segment file
\* returns to the supervisor only through the final flush of lines 126-128,
\* however the loop over the packets ended.
C12_DrainOnEveryExit ==
    [][\A i \in Streams :
          OpenFiles(i) > 0 /\ pc[i] # "ret" /\ pc'[i] = "ret"
              => pc[i] = "final"]_vars

\* the positions of stream i at which stream_to_file is not running
Idle(i) == pc[i] \in { "unspawned", "loop", "ret", "sleep", "stopped" }

\* C13 (no handle survives the recorder): while the recorder of a stream is
\* not running the stream holds no File, and every file that is open is held
\* by some stream.
C13_NoHandleSurvives ==
    /\ \A i \in Streams : Idle(i) => OpenFiles(i) = 0 /\ HeldBy(i) = {}
    /\ DOMAIN fs = UNION { HeldBy(i) : i \in Streams }

\* the only source opened so far delivered a packet to stream i, whose
\* attempt then returned an error: a failed write or a failed creation of the
\* next segment
C13_Witness ==
    \E i \in Streams :
        /\ pc[i] = "ret" /\ res[i] = "err"
        /\ tries[i] = 0 /\ nopen = 1 /\ npk >= 1
        /\ running

\* C14 (write first, poll shutdown after): every video-lane packet with
\* payload that the recorder pulled has been written when the recorder
\* leaves the loop over the packets, the packet pulled after the flag was
\* set included.
C14_WriteBeforePoll ==
    \A i \in Streams : pc[i] = "final" => Len(wrote[i]) = Len(got[i])

\* C15 (responsive backoff): a supervisor that is in its backoff wait when
\* the flag is set can leave the wait at once, before the clock advances: it
\* does not have to wait for the rest of the RetrySecs.
C15_ResponsiveBackoff ==
    \A i \in Streams : pc[i] = "sleep" /\ ~running => ENABLED Wake(i)

\* C16 (no retry after shutdown at completion): a supervisor whose attempt
\* has returned while the flag is set, Ok or Err, does not sleep and does not
\* start another attempt: its next position is the loop test and the one
\* after that is the end of process_stream.
C16_NoRetryAfterShutdown ==
    [][\A i \in Streams :
          ~running
              => /\ pc[i] = "ret" /\ pc'[i] # "ret"
                    => pc'[i] = "loop" /\ wake'[i] = wake[i]
                 /\ pc[i] = "loop" /\ pc'[i] # "loop"
                    => pc'[i] = "stopped"]_vars

\* an attempt has just returned with the flag set and the supervisor went
\* from the match straight to the loop test, without the sleep
C16_Witness ==
    \E i \in Streams :
        pc[i] = "loop" /\ ~running /\ lastEnd[i] = now /\ now > 0

\* C17 (empty input list): with no URL main has nothing to wait for: until it
\* has exited it can always take its next step, whatever the listener does.
C17_EmptyListExits ==
    Len(urls) = 0 /\ mainPc # "done" => ENABLED Main

\* C18 (a failed connect creates nothing): an attempt whose open fails, or
\* whose source has no video stream, returns Err with the files unchanged and
\* no segment created; segments are created only at lines 94 and 117 of an
\* attempt whose source is open; and while no open has succeeded no file
\* exists.
C18_FailedConnectCreatesNothing ==
    /\ [](\A i \in Streams : pc[i] = "create" => src[i] = "live")
    /\ [](nopen = 0 => fs = NoFiles /\ \A i \in Streams : nseg[i] = 0)
    /\ [][\A i \in Streams :
            /\ pc[i] = "open" /\ pc'[i] = "ret"
                  => /\ res'[i] = "err"
                     /\ fs' = fs
                     /\ nseg'[i] = 0
                     /\ HeldBy(i)' = {}
            /\ nseg'[i] > nseg[i] => pc[i] \in { "create", "rcreate" }]_vars

\* the second open in a row has failed and nothing was created
C18_Witness ==
    \E i \in Streams :
        pc[i] = "ret" /\ res[i] = "err" /\ fails[i] = 2 /\ nopen = 0
            /\ fs = NoFiles

\* the positions from which stream i starts no further attempt once the flag
\* is set: the final flush, the match on the Result, the sleep, the loop test
\* and the end of process_stream
Spent == { "final", "ret", "sleep", "loop", "stopped" }
\* the positions inside an attempt whose source is open
InAttempt == { "create", "pull", "chk", "proc", "rcreate", "assign" }

\* C19 (bounded work after shutdown): once the flag is set, a stream that is
\* past the start of an attempt never gets back to one (so at most the one
\* attempt that passed the loop test before starts afterwards), and a stream
\* that has read the flag as set (lines 72, 77, 100) opens no source, writes
\* no payload and creates no segment.
C19_BoundedWorkAfterShutdown ==
    [][\A i \in Streams :
          ~running
              => /\ pc[i] \in Spent
                    => /\ pc'[i] \in Spent
                       /\ nseg'[i] <= nseg[i]
                       /\ Len(wrote'[i]) <= Len(wrote[i])
                 /\ pc[i] \in InAttempt => pc'[i] \in InAttempt \cup Spent
                 /\ pc[i] = "chk" /\ pc'[i] # "chk" => pc'[i] = "final"
                 /\ pc[i] = "loop" /\ pc'[i] # "loop" => pc'[i] = "stopped"
                 /\ nopen' = nopen \/ pc[i] = "open" \/ pc'[i] = pc[i]]_vars

\* the flag was set after the supervisor passed the loop test and before
\* the attempt starts
C19_Witness == \E i \in Streams : pc[i] = "open" /\ ~running

====
